---- MODULE Spec2Model ----
(***************************************************************************)
(* State-machine model of scripts/gen_trending_subriff.py: the blended     *)
(* trending-subreddit generator.  One run of generate_blended_trending()   *)
(* is modelled: the 8 fetches in loop order, the per-record aggregation,   *)
(* the scoring pass, the two selection phases and the final sort.          *)
(*                                                                         *)
(* Representation.                                                         *)
(*  - A subreddit name is a natural number; 0 stands for a missing or      *)
(*    empty displayName (the value for which `not name` is true).          *)
(*  - A Python value that may be None (a rank, the result of sub.get) is  *)
(*    a sequence of length at most one: None is << >>, the value v is      *)
(*    << v >>.  The subscribers field of an entry is such a value, since   *)
(*    the program stores sub.get("subscribers", 0) as it is.               *)
(*  - A field of a raw JSON record is Absent (the key is not in the        *)
(*    object) or holds one Python value: JsonNull holds None, Val(v)       *)
(*    holds v.                                                             *)
(*  - A score is kept in units of 1/ScoreScale, so that growth / 10 and    *)
(*    growth / 50 are exact integers.  The growth values the pages carry   *)
(*    are multiples of 5 (daily) and 25 (weekly), for which the program's  *)
(*    floating-point arithmetic is exact as well.                          *)
(***************************************************************************)
EXTENDS Integers, Sequences, FiniteSets, TLC

VARIABLES
    pc,                \* position of the run
    size_i,            \* index into SIZE_FILTERS of the outer loop
    sort_i,            \* index into SORT_PERIODS of the inner loop
    results,           \* the list fetch_subreddits returned for this query
    rank,              \* enumerate() index of the next record of results
    subreddit_data,    \* dict name -> SubredditScore, in insertion order
    by_size_category,  \* defaultdict(list): size filter -> names
    selected,          \* set of names already chosen
    final_list,        \* list of <<name, composite_score>>
    phase_i,           \* index into SIZE_FILTERS of the Phase 1 loop
    output,            \* the list of names the function returns
    attempts,          \* history: number of fetches issued per query
    fetched,           \* history: per query issued, what the fetch gave
    last_outcome       \* history: how the most recent fetch ended

vars == <<pc, size_i, sort_i, results, rank, subreddit_data, by_size_category,
          selected, final_list, phase_i, output, attempts, fetched, last_outcome>>

-----------------------------------------------------------------------------
(* Program constants *)

SIZE_FILTERS == <<"medium-small", "medium", "large", "xlarge">>
SORT_PERIODS == <<"daily", "weekly">>
RESULTS_PER_QUERY == 20
TOP_PER_SIZE_CATEGORY == 5
FINAL_OUTPUT_LIMIT == 30

\* Scores are counted in units of 1/ScoreScale (the divisors 10 and 50 of
\* the growth contributions both divide it).
ScoreScale == 50

None == << >>

(* Bounds of the model *)

\* Number of records of a size filter's own page.
PageLen == 9

\* Number of records of the first size filter's own page, which runs past
\* RESULTS_PER_QUERY.
LongPageLen == 22

-----------------------------------------------------------------------------
(* Helpers *)

Max(x, y) == IF x >= y THEN x ELSE y
Min(x, y) == IF x <= y THEN x ELSE y

NumQueries == Len(SIZE_FILTERS) * Len(SORT_PERIODS)

\* The number (1..8) of the query the loops are at.
QueryNo(si, pi) == (si - 1) * Len(SORT_PERIODS) + pi
SizeOfQuery(q) == SIZE_FILTERS[((q - 1) \div Len(SORT_PERIODS)) + 1]
SortOfQuery(q) == SORT_PERIODS[((q - 1) % Len(SORT_PERIODS)) + 1]

\* The fields of a raw record.
Absent == << >>
JsonNull == << None >>
Val(v) == << <<v>> >>

\* sub.get(key, default): the value under the key, None included, or the
\* default when the key is absent.
Get(field, default) == IF field = Absent THEN default ELSE field[1]

\* x or 0, for x a number or None
Or0(x) == IF x = None THEN 0 ELSE x[1]

\* sub.get(key, 0) or 0
GetOr0(field) == Or0(Get(field, <<0>>))

\* Keys of the dict, in insertion order, and membership.
Names(data) == {data[i].name : i \in 1..Len(data)}
IndexOf(data, name) == CHOOSE i \in 1..Len(data) : data[i].name = name

-----------------------------------------------------------------------------
(* What the remote API may answer.  A raw record is the JSON object of one *)
(* subreddit; every field may be missing.                                  *)

Sub(n, subs, dg, wg, f1, f2, f3) ==
    [displayName |-> n, subscribers |-> subs,
     dailyGrowthPercentage |-> dg, weeklyGrowthPercentage |-> wg,
     isNsfw |-> f1, internal_IsNsfw |-> f2, suggested_Internal_IsNsfw |-> f3]

Clean(n, dg, wg) == Sub(n, Val(1000 + n), dg, wg, Val(FALSE), Absent, Absent)

\* Names shared by the pages of every size filter.
NameA == 1
NameB == 2
NameC == 3
NameD == 4
NameE == 5
NameF == 6
NameG == 7

\* The two-record page of the documented scenario: only displayName and
\* dailyGrowthPercentage are present.
ScenarioPage ==
    << Sub(NameA, Absent, Val(50), Absent, Absent, Absent, Absent),
       Sub(NameB, Absent, Val(10), Absent, Absent, Absent, Absent) >>

\* A page mixing clean records, records carrying each of the NSFW flags,
\* a record without a name, a name listed twice and a record whose
\* subscribers, daily growth and first flag are null.
MixedPage(sort_by) ==
    IF sort_by = "daily"
    THEN << Clean(NameC, Val(0), Val(0)),
            Sub(NameD, Val(5000), Val(150), Val(600), Val(TRUE), Absent, Absent),
            Clean(0, Val(50), Val(50)),
            Clean(NameB, Val(150), Val(600)),
            Sub(NameE, Val(5000), Val(50), Absent, Val(FALSE), Val(TRUE), Val(FALSE)),
            Clean(NameA, Val(-20), Val(25)),
            Clean(NameB, Val(5), Absent),
            Sub(NameF, Absent, Val(100), Val(500), Absent, Absent, Val(TRUE)) >>
    ELSE << Clean(NameC, Absent, Val(0)),
            Clean(NameE, Val(10), Val(50)),
            Sub(NameA, JsonNull, JsonNull, Val(600), JsonNull, Absent, Val(FALSE)),
            Sub(NameG, Val(5000), Val(50), Val(50), Absent, Val(TRUE), Absent),
            Clean(NameB, Val(0), Val(-100)) >>

\* The i-th subreddit of a size filter's own listing.
BlockName(si, i) == 100 * si + i
BlockRecord(si, i) ==
    Clean(BlockName(si, i),
          IF i % 4 = 0 THEN Absent ELSE Val(10 * (i % 4)),
          IF i % 3 = 0 THEN Absent ELSE Val(50 * (i % 3)))

\* Length of a size filter's own page.
BlockLen(si) == IF si = 1 THEN LongPageLen ELSE PageLen

\* A size filter's own page: its subreddits in one order in the daily
\* listing and in the opposite order in the weekly listing.
BlockPage(si, sort_by) ==
    [j \in 1..BlockLen(si) |->
        IF sort_by = "daily" THEN BlockRecord(si, j)
                             ELSE BlockRecord(si, BlockLen(si) + 1 - j)]

\* The lists fetch_subreddits may return for a query.
Pages(si, pi) ==
    {MixedPage(SORT_PERIODS[pi]), BlockPage(si, SORT_PERIODS[pi])}
    \cup (IF SIZE_FILTERS[si] = "medium" /\ SORT_PERIODS[pi] = "daily"
          THEN {ScenarioPage} ELSE {})
    \cup (IF si = Len(SIZE_FILTERS) /\ pi = Len(SORT_PERIODS) THEN {<< >>} ELSE {})

\* The exceptions fetch_subreddits may raise: the HTTP call failing (a
\* transport error, a timeout, a non-2xx status) and the body not being JSON.
FetchExceptions == {"http_error", "json_error"}

-----------------------------------------------------------------------------
(* Aggregation: the body of the loop over the records of one query *)

\* Truth value of sub.get(key), for a flag that is absent, null or a boolean.
Truthy(field) == Get(field, None) # None /\ Get(field, None)[1]

\* Variant: the third flag is not looked at.
IsNsfwTwoFlags(sub) ==
    \/ Truthy(sub.isNsfw)
    \/ Truthy(sub.internal_IsNsfw)

IsNsfw(sub) ==
    \/ Truthy(sub.isNsfw)
    \/ Truthy(sub.internal_IsNsfw)
    \/ Truthy(sub.suggested_Internal_IsNsfw)

SubredditScore(name, subscribers, dg, wg, size_filter) ==
    [name |-> name, subscribers |-> subscribers,
     daily_growth_pct |-> dg, weekly_growth_pct |-> wg,
     daily_rank |-> None, weekly_rank |-> None,
     size_filter |-> size_filter, appearances |-> 0, composite_score |-> 0]

\* Variant: the rank of the latest sighting overwrites the recorded one.
UpdateRankOverwrite(cur, r) == <<r>>

\* if entry.rank is None or rank < entry.rank: entry.rank = rank
UpdateRank(cur, r) == IF cur = None \/ r < cur[1] THEN <<r>> ELSE cur

\* Variant: a sighting also re-tags the entry with the current size filter.
UpdateEntryRetag(entry, sub, size_filter, sort_by, r) ==
    [entry EXCEPT
        !.size_filter = size_filter,
        !.appearances = @ + 1,
        !.daily_rank = IF sort_by = "daily" THEN UpdateRank(@, r) ELSE @,
        !.weekly_rank = IF sort_by = "daily" THEN @ ELSE UpdateRank(@, r),
        !.daily_growth_pct = Max(@, GetOr0(sub.dailyGrowthPercentage)),
        !.weekly_growth_pct = Max(@, GetOr0(sub.weeklyGrowthPercentage))]

\* Lines 130-149: the update of an entry on a sighting.
UpdateEntry(entry, sub, size_filter, sort_by, r) ==
    [entry EXCEPT
        !.appearances = @ + 1,
        !.daily_rank = IF sort_by = "daily" THEN UpdateRank(@, r) ELSE @,
        !.weekly_rank = IF sort_by = "daily" THEN @ ELSE UpdateRank(@, r),
        !.daily_growth_pct = Max(@, GetOr0(sub.dailyGrowthPercentage)),
        !.weekly_growth_pct = Max(@, GetOr0(sub.weeklyGrowthPercentage))]

\* Lines 120-127: the dict after the "initialize" branch.
WithEntry(data, sub, size_filter) ==
    IF sub.displayName \in Names(data) THEN data
    ELSE Append(data, SubredditScore(sub.displayName,
                                     Get(sub.subscribers, <<0>>),
                                     GetOr0(sub.dailyGrowthPercentage),
                                     GetOr0(sub.weeklyGrowthPercentage),
                                     size_filter))

\* Line 128: the category index after the "initialize" branch.
WithCategory(by, data, sub, size_filter) ==
    IF sub.displayName \in Names(data) THEN by
    ELSE [by EXCEPT ![size_filter] = Append(@, sub.displayName)]

\* Lines 119-149 on one qualifying record.
AggregateRecord(data, sub, size_filter, sort_by, r) ==
    LET data1 == WithEntry(data, sub, size_filter)
        i == IndexOf(data1, sub.displayName)
    IN [data1 EXCEPT ![i] = UpdateEntry(@, sub, size_filter, sort_by, r)]

-----------------------------------------------------------------------------
(* Scoring *)

\* Variant: the multi-appearance bonus counts every appearance.
calculate_composite_score_bonus(sub) ==
    LET position ==
            (IF sub.daily_rank # None
             THEN Max(0, RESULTS_PER_QUERY - sub.daily_rank[1]) ELSE 0)
          + (IF sub.weekly_rank # None
             THEN Max(0, RESULTS_PER_QUERY - sub.weekly_rank[1]) ELSE 0)
        bonus == IF sub.appearances >= 2 THEN 15 * sub.appearances ELSE 0
        daily_contrib == Min(sub.daily_growth_pct, 100) * (ScoreScale \div 10)
        weekly_contrib == Min(sub.weekly_growth_pct, 500) * (ScoreScale \div 50)
    IN ScoreScale * (position + bonus) + daily_contrib + weekly_contrib

\* The composite score, in units of 1/ScoreScale.
calculate_composite_score(sub) ==
    LET position ==
            (IF sub.daily_rank # None
             THEN Max(0, RESULTS_PER_QUERY - sub.daily_rank[1]) ELSE 0)
          + (IF sub.weekly_rank # None
             THEN Max(0, RESULTS_PER_QUERY - sub.weekly_rank[1]) ELSE 0)
        bonus == IF sub.appearances >= 2 THEN 15 * (sub.appearances - 1) ELSE 0
        daily_contrib == Min(sub.daily_growth_pct, 100) * (ScoreScale \div 10)
        weekly_contrib == Min(sub.weekly_growth_pct, 500) * (ScoreScale \div 50)
    IN ScoreScale * (position + bonus) + daily_contrib + weekly_contrib

-----------------------------------------------------------------------------
(* Selection *)

\* sorted(..., key=score, reverse=True) on a list of <<name, score>>: a
\* stable sort, elements of equal score keep their order.
InsertDesc(s, x) ==
    LET k == Cardinality({i \in 1..Len(s) : s[i][2] >= x[2]})
    IN SubSeq(s, 1, k) \o <<x>> \o SubSeq(s, k + 1, Len(s))

RECURSIVE SortPrefix(_, _)
SortPrefix(s, n) == IF n = 0 THEN << >> ELSE InsertDesc(SortPrefix(s, n - 1), s[n])

SortedDesc(s) == SortPrefix(s, Len(s))

ScoreOf(data, name) == data[IndexOf(data, name)].composite_score

\* Lines 164-168: a category's names, sorted by composite score.
sorted_category(data, category_subs) ==
    LET pairs == [i \in 1..Len(category_subs) |->
                    <<category_subs[i], ScoreOf(data, category_subs[i])>>]
    IN SortedDesc(pairs)

\* Variant: the slice is one short.
TopOfCategoryShort(s) == SubSeq(s, 1, Min(TOP_PER_SIZE_CATEGORY - 1, Len(s)))

\* Line 169: sorted_category[:TOP_PER_SIZE_CATEGORY]
TopOfCategory(s) == SubSeq(s, 1, Min(TOP_PER_SIZE_CATEGORY, Len(s)))

\* Lines 169-172: the loop over the slice; gives <<selected, final_list>>.
RECURSIVE TakeCategory(_, _, _, _)
TakeCategory(top, n, sel, fl) ==
    IF n = 0 THEN <<sel, fl>>
    ELSE LET before == TakeCategory(top, n - 1, sel, fl)
             name == top[n][1]
         IN IF name \notin before[1]
            THEN <<before[1] \cup {name}, Append(before[2], top[n])>>
            ELSE before

\* Lines 177-181: all entries, sorted by composite score.
all_sorted(data) ==
    SortedDesc([i \in 1..Len(data) |-> <<data[i].name, data[i].composite_score>>])

\* Lines 182-187: the fill loop from position i of all_sorted on; gives
\* <<selected, final_list>>.
RECURSIVE FillFrom(_, _, _, _)
FillFrom(srt, i, sel, fl) ==
    IF i > Len(srt) THEN <<sel, fl>>
    ELSE IF srt[i][1] \notin sel
         THEN LET fl1 == Append(fl, srt[i])
              IN IF Len(fl1) >= FINAL_OUTPUT_LIMIT
                 THEN <<sel \cup {srt[i][1]}, fl1>>
                 ELSE FillFrom(srt, i + 1, sel \cup {srt[i][1]}, fl1)
         ELSE FillFrom(srt, i + 1, sel, fl)

\* Variant: the fill loop never breaks at the limit.
RECURSIVE FillNoBreak(_, _, _, _)
FillNoBreak(srt, i, sel, fl) ==
    IF i > Len(srt) THEN <<sel, fl>>
    ELSE IF srt[i][1] \notin sel
         THEN FillNoBreak(srt, i + 1, sel \cup {srt[i][1]}, Append(fl, srt[i]))
         ELSE FillNoBreak(srt, i + 1, sel, fl)

Phase2FillNoBreak(data, sel, fl) ==
    IF FINAL_OUTPUT_LIMIT - Len(fl) > 0
    THEN FillNoBreak(all_sorted(data), 1, sel, fl)
    ELSE <<sel, fl>>

\* Variant: the fill loop does not look at the selected set.
RECURSIVE FillNoDedup(_, _, _, _)
FillNoDedup(srt, i, sel, fl) ==
    IF i > Len(srt) THEN <<sel, fl>>
    ELSE LET fl1 == Append(fl, srt[i])
         IN IF Len(fl1) >= FINAL_OUTPUT_LIMIT
            THEN <<sel \cup {srt[i][1]}, fl1>>
            ELSE FillNoDedup(srt, i + 1, sel \cup {srt[i][1]}, fl1)

Phase2FillNoDedup(data, sel, fl) ==
    IF FINAL_OUTPUT_LIMIT - Len(fl) > 0
    THEN FillNoDedup(all_sorted(data), 1, sel, fl)
    ELSE <<sel, fl>>

\* Lines 175-187: Phase 2.
Phase2Fill(data, sel, fl) ==
    IF FINAL_OUTPUT_LIMIT - Len(fl) > 0
    THEN FillFrom(all_sorted(data), 1, sel, fl)
    ELSE <<sel, fl>>

\* Variant: the list is returned in selection order.
final_sort_skipped(fl) == fl

\* Line 190: final_list.sort(key=score, reverse=True)
final_sort(fl) == SortedDesc(fl)

-----------------------------------------------------------------------------
(* The run *)

Init ==
    /\ pc = "fetch"
    /\ size_i = 1
    /\ sort_i = 1
    /\ results = << >>
    /\ rank = 0
    /\ subreddit_data = << >>
    /\ by_size_category = [s \in {SIZE_FILTERS[i] : i \in 1..Len(SIZE_FILTERS)} |-> << >>]
    /\ selected = {}
    /\ final_list = << >>
    /\ phase_i = 1
    /\ output = << >>
    /\ attempts = [q \in 1..NumQueries |-> 0]
    /\ fetched = << >>
    /\ last_outcome = "none"

\* Where the two nested for-loops stand after the query at (si, pi) is over.
NextQuery(si, pi) ==
    IF pi < Len(SORT_PERIODS)
    THEN [pc |-> "fetch", size_i |-> si, sort_i |-> pi + 1]
    ELSE IF si < Len(SIZE_FILTERS)
         THEN [pc |-> "fetch", size_i |-> si + 1, sort_i |-> 1]
         ELSE [pc |-> "score", size_i |-> si, sort_i |-> pi]

\* Variant: `break` in the handler, which leaves the loop over the periods.
BreakAfterFetchError(si, pi) ==
    IF si < Len(SIZE_FILTERS)
    THEN [pc |-> "fetch", size_i |-> si + 1, sort_i |-> 1]
    ELSE [pc |-> "score", size_i |-> si, sort_i |-> pi]

\* Line 104: `continue` in the handler of a failed fetch.
AfterFetchError(si, pi) == NextQuery(si, pi)

\* Variant: the handler catches the HTTP layer's errors only.
CaughtHttpOnly(exc) == exc = "http_error"

\* Line 102: `except Exception` catches whatever fetch_subreddits raises.
Caught(exc) == exc \in FetchExceptions

GoTo(pos) ==
    /\ pc' = pos.pc
    /\ size_i' = pos.size_i
    /\ sort_i' = pos.sort_i

Issue(entry, outcome) ==
    /\ attempts' = [attempts EXCEPT ![QueryNo(size_i, sort_i)] = @ + 1]
    /\ fetched' = Append(fetched, entry)
    /\ last_outcome' = outcome

\* Lines 100-101, 106: the fetch returns a list; the loop over it starts.
FetchOk ==
    /\ pc = "fetch"
    /\ \E page \in Pages(size_i, sort_i) :
        /\ results' = page
        /\ rank' = 0
        /\ Issue([ok |-> TRUE, page |-> page], "ok")
        /\ IF page = << >>
           THEN GoTo(NextQuery(size_i, sort_i))
           ELSE pc' = "process" /\ UNCHANGED <<size_i, sort_i>>
    /\ UNCHANGED <<subreddit_data, by_size_category, selected, final_list,
                   phase_i, output>>

\* Lines 100-104: fetch_subreddits raises.
FetchError ==
    /\ pc = "fetch"
    /\ \E exc \in FetchExceptions :
        /\ Issue([ok |-> FALSE, page |-> << >>], exc)
        /\ IF Caught(exc)
           THEN GoTo(AfterFetchError(size_i, sort_i))
           ELSE pc' = "aborted" /\ UNCHANGED <<size_i, sort_i>>
    /\ UNCHANGED <<results, rank, subreddit_data, by_size_category, selected,
                   final_list, phase_i, output>>

\* Lines 56-57, 106: the body is JSON whose "subreddits" is null; the fetch
\* returns None and enumerate(None) raises outside the try block.
FetchNull ==
    /\ pc = "fetch"
    /\ Issue([ok |-> TRUE, page |-> << >>], "null_list")
    /\ pc' = "aborted"
    /\ UNCHANGED <<size_i, sort_i, results, rank, subreddit_data,
                   by_size_category, selected, final_list, phase_i, output>>

\* The record the loop is at.
CurrentSub == results[rank + 1]

\* Line 106: the next iteration of the loop over results, or its end.
NextRecord ==
    /\ rank' = rank + 1
    /\ IF rank + 1 < Len(results)
       THEN UNCHANGED <<pc, size_i, sort_i>>
       ELSE GoTo(NextQuery(size_i, sort_i))

\* Lines 107-109.
SkipNoName ==
    /\ pc = "process"
    /\ CurrentSub.displayName = 0
    /\ NextRecord
    /\ UNCHANGED <<results, subreddit_data, by_size_category, selected,
                   final_list, phase_i, output, attempts, fetched, last_outcome>>

\* Lines 111-117.
SkipNsfw ==
    /\ pc = "process"
    /\ CurrentSub.displayName # 0
    /\ IsNsfw(CurrentSub)
    /\ NextRecord
    /\ UNCHANGED <<results, subreddit_data, by_size_category, selected,
                   final_list, phase_i, output, attempts, fetched, last_outcome>>

\* Lines 119-149.
Aggregate ==
    /\ pc = "process"
    /\ CurrentSub.displayName # 0
    /\ ~IsNsfw(CurrentSub)
    /\ subreddit_data' = AggregateRecord(subreddit_data, CurrentSub,
                            SIZE_FILTERS[size_i], SORT_PERIODS[sort_i], rank)
    /\ by_size_category' = WithCategory(by_size_category, subreddit_data,
                            CurrentSub, SIZE_FILTERS[size_i])
    /\ NextRecord
    /\ UNCHANGED <<results, selected, final_list, phase_i, output, attempts,
                   fetched, last_outcome>>

\* Lines 152-153.
Score ==
    /\ pc = "score"
    /\ subreddit_data' =
          [i \in 1..Len(subreddit_data) |->
             [subreddit_data[i] EXCEPT
                !.composite_score = calculate_composite_score(subreddit_data[i])]]
    /\ pc' = "phase1"
    /\ UNCHANGED <<size_i, sort_i, results, rank, by_size_category, selected,
                   final_list, phase_i, output, attempts, fetched, last_outcome>>

\* Lines 161-172: one iteration of the Phase 1 loop.
Phase1 ==
    /\ pc = "phase1"
    /\ LET top == TopOfCategory(sorted_category(subreddit_data,
                                   by_size_category[SIZE_FILTERS[phase_i]]))
           took == TakeCategory(top, Len(top), selected, final_list)
       IN /\ selected' = took[1]
          /\ final_list' = took[2]
    /\ IF phase_i < Len(SIZE_FILTERS)
       THEN phase_i' = phase_i + 1 /\ pc' = pc
       ELSE phase_i' = phase_i /\ pc' = "phase2"
    /\ UNCHANGED <<size_i, sort_i, results, rank, subreddit_data,
                   by_size_category, output, attempts, fetched, last_outcome>>

\* Lines 175-187.
Phase2 ==
    /\ pc = "phase2"
    /\ LET filled == Phase2Fill(subreddit_data, selected, final_list)
       IN /\ selected' = filled[1]
          /\ final_list' = filled[2]
    /\ pc' = "sort"
    /\ UNCHANGED <<size_i, sort_i, results, rank, subreddit_data,
                   by_size_category, phase_i, output, attempts, fetched,
                   last_outcome>>

\* Lines 190-192.
Return ==
    /\ pc = "sort"
    /\ final_list' = final_sort(final_list)
    /\ output' = [i \in 1..Len(final_list) |-> final_sort(final_list)[i][1]]
    /\ pc' = "done"
    /\ UNCHANGED <<size_i, sort_i, results, rank, subreddit_data,
                   by_size_category, selected, phase_i, attempts, fetched,
                   last_outcome>>

Next ==
    \/ FetchOk
    \/ FetchError
    \/ FetchNull
    \/ SkipNoName
    \/ SkipNsfw
    \/ Aggregate
    \/ Score
    \/ Phase1
    \/ Phase2
    \/ Return

Spec == Init /\ [][Next]_vars

-----------------------------------------------------------------------------
(* The aggregation loop body applied twice to one result list.             *)
(* SpecTwice runs the loop of lines 106-149 over the list of a query and   *)
(* then over the same list again for the same (size, period) pair, for up  *)
(* to MaxTwiceQueries consecutive queries starting at any pair.            *)

MaxTwiceQueries == 3

InitTwice ==
    /\ pc = "fetch"
    /\ size_i \in 1..Len(SIZE_FILTERS)
    /\ sort_i \in 1..Len(SORT_PERIODS)
    /\ results = << >>
    /\ rank = 0
    /\ subreddit_data = << >>
    /\ by_size_category = [s \in {SIZE_FILTERS[i] : i \in 1..Len(SIZE_FILTERS)} |-> << >>]
    /\ selected = {}
    /\ final_list = << >>
    /\ phase_i = 1
    /\ output = << >>
    /\ attempts = [q \in 1..NumQueries |-> 0]
    /\ fetched = << >>
    /\ last_outcome = "none"

FetchBounded ==
    /\ Len(fetched) < MaxTwiceQueries
    /\ FetchOk

\* The query whose list was looped over last.
LastIssued == CHOOSE q \in 1..NumQueries :
                 /\ attempts[q] > 0
                 /\ \A r \in 1..NumQueries : attempts[r] > 0 => r <= q

\* Lines 106-149 once more over the same results, for the same pair.
Repeat ==
    /\ pc \in {"fetch", "score"}
    /\ results # << >>
    /\ attempts[LastIssued] = 1
    /\ attempts' = [attempts EXCEPT ![LastIssued] = 2]
    /\ size_i' = ((LastIssued - 1) \div Len(SORT_PERIODS)) + 1
    /\ sort_i' = ((LastIssued - 1) % Len(SORT_PERIODS)) + 1
    /\ rank' = 0
    /\ pc' = "process"
    /\ UNCHANGED <<results, subreddit_data, by_size_category, selected,
                   final_list, phase_i, output, fetched, last_outcome>>

NextTwice ==
    \/ FetchBounded
    \/ SkipNoName
    \/ SkipNsfw
    \/ Aggregate
    \/ Repeat

SpecTwice == InitTwice /\ [][NextTwice]_vars

-----------------------------------------------------------------------------
(* Vocabulary of the properties *)

\* A record that is not skipped: it has a name and none of the three NSFW
\* flags is true.
Flagged(sub) ==
    \/ sub.isNsfw = Val(TRUE)
    \/ sub.internal_IsNsfw = Val(TRUE)
    \/ sub.suggested_Internal_IsNsfw = Val(TRUE)

Qualifies(sub) == sub.displayName # 0 /\ ~Flagged(sub)

\* Number of records of the k-th fetched list the loop has already visited.
Sighted(k) ==
    IF k = Len(fetched) /\ pc = "process" THEN rank ELSE Len(fetched[k].page)

\* The qualifying sightings so far: <<k, j>> is record j of the k-th list.
Sightings ==
    {kj \in UNION {{<<k, j>> : j \in 1..Sighted(k)} : k \in 1..Len(fetched)} :
        Qualifies(fetched[kj[1]].page[kj[2]])}

SightedName(kj) == fetched[kj[1]].page[kj[2]].displayName

ObservedNames == {SightedName(kj) : kj \in Sightings}

EntryOf(name) == subreddit_data[IndexOf(subreddit_data, name)]

Sizes == {SIZE_FILTERS[i] : i \in 1..Len(SIZE_FILTERS)}

Scored == pc \in {"phase1", "phase2", "sort", "done"}

\* Number of output positions held by subreddits of a size category.
InOutput(size) ==
    Cardinality({i \in 1..Len(output) : EntryOf(output[i]).size_filter = size})

\* The names of a category that fewer than TOP_PER_SIZE_CATEGORY names of
\* the category precede in descending score order (earlier insertion first
\* among equal scores).
CategoryTop(size) ==
    LET cat == by_size_category[size]
        Before(i, j) ==
            \/ EntryOf(cat[i]).composite_score > EntryOf(cat[j]).composite_score
            \/ /\ EntryOf(cat[i]).composite_score = EntryOf(cat[j]).composite_score
               /\ i < j
    IN {cat[j] : j \in {j \in 1..Len(cat) :
            Cardinality({i \in 1..Len(cat) : Before(i, j)}) < TOP_PER_SIZE_CATEGORY}}

OutputNames == {output[i] : i \in 1..Len(output)}

-----------------------------------------------------------------------------
(* Properties *)

\* C1: the returned list is sorted by non-increasing composite score: each
\* name's score is at least the score of the name that follows it,
\* whichever phase contributed the two.
C1_OutputSorted ==
    pc = "done" =>
        \A i \in 1..(Len(output) - 1) :
            EntryOf(output[i]).composite_score
                >= EntryOf(output[i + 1]).composite_score

\* C1 witness: a full-length output in which a subreddit of the last size
\* category (appended late in Phase 1) stands before one of the first
\* category, and a name outside its category's top stands in the list
\* (contributed by Phase 2).
C1_Witness ==
    /\ pc = "done"
    /\ Len(output) = FINAL_OUTPUT_LIMIT
    /\ \E i, j \in 1..Len(output) :
        /\ i < j
        /\ EntryOf(output[i]).size_filter = "xlarge"
        /\ EntryOf(output[j]).size_filter = "medium-small"
        /\ EntryOf(output[i]).composite_score > EntryOf(output[j]).composite_score
    /\ \E n \in OutputNames : n \notin CategoryTop(EntryOf(n).size_filter)

\* C2: the output is at most FINAL_OUTPUT_LIMIT long and at most as long as
\* the number of distinct names seen in a record with a name and no NSFW
\* flag in the lists of the successful queries.
C2_OutputSizeBound ==
    pc = "done" =>
        /\ Len(output) <= FINAL_OUTPUT_LIMIT
        /\ Len(output) <= Cardinality(ObservedNames)

\* C2 witness: more qualifying names were observed than the limit, and the
\* output stops at the limit.
C2_Witness ==
    /\ pc = "done"
    /\ Cardinality(ObservedNames) > FINAL_OUTPUT_LIMIT
    /\ Len(output) = FINAL_OUTPUT_LIMIT

\* C3: when every size category lists at least TOP_PER_SIZE_CATEGORY
\* subreddits, the output holds, for every category, at least
\* min(TOP_PER_SIZE_CATEGORY, category size) subreddits of that category,
\* and the top TOP_PER_SIZE_CATEGORY names of every category are all in it.
C3_DiversityGuarantee ==
    (/\ pc = "done"
     /\ \A s \in Sizes : Len(by_size_category[s]) >= TOP_PER_SIZE_CATEGORY)
    => \A s \in Sizes :
        /\ InOutput(s) >= Min(TOP_PER_SIZE_CATEGORY, Len(by_size_category[s]))
        /\ CategoryTop(s) \subseteq OutputNames

\* C3 witness: every category lists at least five subreddits, the map holds
\* more than FINAL_OUTPUT_LIMIT, and a category's fifth name is in the
\* output although FINAL_OUTPUT_LIMIT other subreddits score higher.
C3_Witness ==
    /\ pc = "done"
    /\ \A s \in Sizes : Len(by_size_category[s]) >= TOP_PER_SIZE_CATEGORY
    /\ Len(subreddit_data) > FINAL_OUTPUT_LIMIT
    /\ \E n \in OutputNames :
        Cardinality({i \in 1..Len(subreddit_data) :
            subreddit_data[i].composite_score > EntryOf(n).composite_score})
          >= FINAL_OUTPUT_LIMIT

\* C4: a record with any NSFW flag true changes neither the aggregated map
\* nor the size-category index, and every key of the map (and so every name
\* of the output) was seen in a record with a name and no NSFW flag.
C4_NsfwStep ==
    (pc = "process" /\ Flagged(CurrentSub))
        => UNCHANGED <<subreddit_data, by_size_category>>

C4_NsfwKeys ==
    /\ Names(subreddit_data) \subseteq ObservedNames
    /\ OutputNames \subseteq ObservedNames

C4_NsfwFiltered == [][C4_NsfwStep]_vars /\ []C4_NsfwKeys

\* C4 witness: the loop has just passed a record that carries only the
\* third flag and a growth above every cap, its name is in no record
\* without a flag, and the map, which has entries, has none for it.
C4_Witness ==
    /\ pc \in {"process", "fetch", "score"}
    /\ rank > 0
    /\ rank <= Len(results)
    /\ results[rank].suggested_Internal_IsNsfw = Val(TRUE)
    /\ results[rank].isNsfw # Val(TRUE)
    /\ results[rank].internal_IsNsfw # Val(TRUE)
    /\ results[rank].displayName \notin ObservedNames
    /\ results[rank].displayName \notin Names(subreddit_data)
    /\ subreddit_data # << >>

\* C5: a failed fetch changes neither the map nor the index and moves the
\* loops to the next query; no fetch failure aborts the run; every query is
\* fetched at most once, and exactly once when the loops are over; and when
\* all 8 fetches fail the returned list is empty.
C5_FailStep ==
    (pc = "fetch" /\ last_outcome' \in FetchExceptions)
        => /\ UNCHANGED <<subreddit_data, by_size_category>>
           /\ \/ pc' = "fetch"
                    /\ QueryNo(size_i', sort_i') = QueryNo(size_i, sort_i) + 1
              \/ pc' = "score" /\ QueryNo(size_i, sort_i) = NumQueries

C5_FailState ==
    /\ \A q \in 1..NumQueries : attempts[q] <= 1
    /\ pc \notin {"fetch", "process", "aborted"}
          => \A q \in 1..NumQueries : attempts[q] = 1
    /\ pc = "aborted" => last_outcome \notin FetchExceptions
    /\ (pc = "done" /\ \A k \in 1..Len(fetched) : ~fetched[k].ok)
          => output = << >>

C5_FetchFailureNotFatal == [][C5_FailStep]_vars /\ []C5_FailState

\* C5 witness: the run is complete, some fetches failed (the first and the
\* last among them), others succeeded, and the output is not empty.
C5_Witness ==
    /\ pc = "done"
    /\ ~fetched[1].ok
    /\ ~fetched[NumQueries].ok
    /\ \E k \in 1..Len(fetched) : fetched[k].ok
    /\ output # << >>

\* C6 as stated: once a JSON parsing error has arisen in a query, the run is
\* aborted.
C6_JsonErrorAborts == last_outcome = "json_error" => pc = "aborted"

\* C6 as amended: a JSON parsing error raised inside fetch_subreddits is
\* recovered like an HTTP failure (the run goes on and is never aborted by
\* it); the run is aborted only by an error raised after the fetch has
\* returned, here a "subreddits" value that is not a list, and then no
\* output list is produced.
C6_JsonErrorRecovered ==
    /\ last_outcome \in FetchExceptions
          => pc \in {"fetch", "score", "phase1", "phase2", "sort", "done"}
    /\ pc = "aborted"
          => /\ last_outcome = "null_list"
             /\ output = << >>
             /\ final_list = << >>

\* C6 witness: the last query's body was not JSON, and the run has still
\* returned a list, built from the earlier queries.
C6_Witness ==
    /\ pc = "done"
    /\ last_outcome = "json_error"
    /\ output # << >>

\* C7: in every step, no entry is removed from the map, and for every
\* entry: a rank that is set stays set and does not increase, the growth
\* fields do not decrease, and appearances grows by exactly 1 if the step
\* aggregates a qualifying record of that name and is unchanged otherwise.
C7_Step ==
    /\ Len(subreddit_data') >= Len(subreddit_data)
    /\ \A i \in 1..Len(subreddit_data) :
        LET old == subreddit_data[i]
            new == subreddit_data'[i]
            sighted == /\ pc = "process"
                       /\ Qualifies(CurrentSub)
                       /\ CurrentSub.displayName = old.name
        IN /\ new.name = old.name
           /\ old.daily_rank # None
                => new.daily_rank # None /\ new.daily_rank[1] <= old.daily_rank[1]
           /\ old.weekly_rank # None
                => new.weekly_rank # None /\ new.weekly_rank[1] <= old.weekly_rank[1]
           /\ new.daily_growth_pct >= old.daily_growth_pct
           /\ new.weekly_growth_pct >= old.weekly_growth_pct
           /\ new.appearances = old.appearances + (IF sighted THEN 1 ELSE 0)
    /\ \A i \in (Len(subreddit_data) + 1)..Len(subreddit_data') :
        /\ pc = "process"
        /\ Qualifies(CurrentSub)
        /\ subreddit_data'[i].name = CurrentSub.displayName
        /\ subreddit_data'[i].appearances = 1

C7_MonotonicAggregation == [][C7_Step]_vars

\* C7 witness: the list of a query is being looped over for the second
\* time; the record just passed stands at a worse position than the rank
\* its entry keeps and carries less growth than its entry keeps, and the
\* entry counts more sightings than lists were fetched.
C7_Witness ==
    /\ pc = "process"
    /\ rank > 0
    /\ attempts[QueryNo(size_i, sort_i)] = 2
    /\ Qualifies(results[rank])
    /\ LET e == EntryOf(results[rank].displayName)
       IN /\ SORT_PERIODS[sort_i] = "daily"
          /\ e.daily_rank # None
          /\ e.daily_rank[1] < rank - 1
          /\ e.daily_growth_pct > GetOr0(results[rank].dailyGrowthPercentage)
          /\ e.appearances > Len(fetched)

\* C8: once scored, every entry's composite score is, on its aggregated
\* fields, (20 - dailyRank, floored at 0, if present) + (20 - weeklyRank,
\* floored at 0, if present) + 15 * (appearances - 1) if appearances >= 2
\* + min(dailyGrowth, 100) / 10 + min(weeklyGrowth, 500) / 50 (all in units
\* of 1/ScoreScale).  When only the (medium, daily) query succeeds and
\* returns [a with daily growth 50, b with daily growth 10], the map has 2
\* entries, a has dailyRank 0 and score 25, b has dailyRank 1 and score 20
\* and the output is [a, b].  A subreddit seen twice, at rank 0 in a daily
\* and in a weekly list, with no growth, scores 55.
C8_Formula(e) ==
      (IF e.daily_rank = None THEN 0
       ELSE IF e.daily_rank[1] >= 20 THEN 0 ELSE 50 * (20 - e.daily_rank[1]))
    + (IF e.weekly_rank = None THEN 0
       ELSE IF e.weekly_rank[1] >= 20 THEN 0 ELSE 50 * (20 - e.weekly_rank[1]))
    + (IF e.appearances >= 2 THEN 50 * 15 * (e.appearances - 1) ELSE 0)
    + 5 * (IF e.daily_growth_pct > 100 THEN 100 ELSE e.daily_growth_pct)
    + (IF e.weekly_growth_pct > 500 THEN 500 ELSE e.weekly_growth_pct)

C8_OnlyMediumDaily ==
    /\ pc = "done"
    /\ \A k \in 1..Len(fetched) :
        fetched[k].ok <=> (SizeOfQuery(k) = "medium" /\ SortOfQuery(k) = "daily")
    /\ fetched[QueryNo(2, 1)].page = ScenarioPage

C8_CompositeScore ==
    /\ Scored => \A i \in 1..Len(subreddit_data) :
                    subreddit_data[i].composite_score = C8_Formula(subreddit_data[i])
    /\ C8_OnlyMediumDaily =>
          /\ Len(subreddit_data) = 2
          /\ Names(subreddit_data) = {NameA, NameB}
          /\ EntryOf(NameA).daily_rank = <<0>>
          /\ EntryOf(NameA).composite_score = 25 * ScoreScale
          /\ EntryOf(NameB).daily_rank = <<1>>
          /\ EntryOf(NameB).composite_score = 20 * ScoreScale
          /\ output = <<NameA, NameB>>
    /\ Scored => \A i \in 1..Len(subreddit_data) :
          (/\ subreddit_data[i].daily_rank = <<0>>
           /\ subreddit_data[i].weekly_rank = <<0>>
           /\ subreddit_data[i].appearances = 2
           /\ subreddit_data[i].daily_growth_pct = 0
           /\ subreddit_data[i].weekly_growth_pct = 0)
          => subreddit_data[i].composite_score = 55 * ScoreScale

\* C8 witness: the run of the first scenario is complete.
C8_Witness == C8_OnlyMediumDaily /\ output = <<NameA, NameB>>

\* The second scenario is reached as well: only the daily and the weekly
\* query of one size filter succeeded, and a subreddit first in both lists,
\* with no growth, scores 55.
C8_WitnessBothPeriods ==
    /\ pc = "done"
    /\ \E s \in 1..Len(SIZE_FILTERS) :
        /\ \A k \in 1..Len(fetched) : fetched[k].ok <=> SizeOfQuery(k) = SIZE_FILTERS[s]
        /\ fetched[QueryNo(s, 1)].page # << >>
        /\ fetched[QueryNo(s, 2)].page # << >>
        /\ fetched[QueryNo(s, 1)].page[1].displayName = NameC
        /\ fetched[QueryNo(s, 2)].page[1].displayName = NameC
    /\ EntryOf(NameC).appearances = 2
    /\ EntryOf(NameC).daily_growth_pct = 0
    /\ EntryOf(NameC).weekly_growth_pct = 0
    /\ EntryOf(NameC).composite_score = 55 * ScoreScale

\* C9: at every point of the aggregation the category lists partition the
\* keys of the map: every key stands exactly once in exactly one list, the
\* list of its entry's size_filter, and the lists hold nothing else.  An
\* entry is created by the first qualifying sighting of its name (no
\* earlier list held a qualifying record of it), with the size filter of
\* the query being looped over, every qualifying sighting leaves an entry
\* of its name, and no step changes the size_filter of an entry.
C9_TotalListed ==
    Len(by_size_category[SIZE_FILTERS[1]]) + Len(by_size_category[SIZE_FILTERS[2]])
    + Len(by_size_category[SIZE_FILTERS[3]]) + Len(by_size_category[SIZE_FILTERS[4]])

C9_Partition ==
    /\ C9_TotalListed = Len(subreddit_data)
    /\ \A i \in 1..Len(subreddit_data) :
        /\ subreddit_data[i].size_filter \in Sizes
        /\ \E j \in 1..Len(by_size_category[subreddit_data[i].size_filter]) :
            by_size_category[subreddit_data[i].size_filter][j] = subreddit_data[i].name
        /\ \A j \in 1..Len(subreddit_data) :
            subreddit_data[j].name = subreddit_data[i].name => i = j

C9_Step ==
    /\ \A i \in 1..Len(subreddit_data) :
        /\ Len(subreddit_data') >= i
        /\ subreddit_data'[i].name = subreddit_data[i].name
        /\ subreddit_data'[i].size_filter = subreddit_data[i].size_filter
    /\ \A i \in (Len(subreddit_data) + 1)..Len(subreddit_data') :
        /\ pc = "process"
        /\ Qualifies(CurrentSub)
        /\ subreddit_data'[i].name = CurrentSub.displayName
        /\ CurrentSub.displayName \notin ObservedNames
        /\ subreddit_data'[i].size_filter = SIZE_FILTERS[size_i]
        /\ SIZE_FILTERS[size_i] = SizeOfQuery(Len(fetched))
    /\ (pc = "process" /\ Qualifies(CurrentSub))
          => CurrentSub.displayName \in Names(subreddit_data')

C9_IndexPartitionsMap == []C9_Partition /\ [][C9_Step]_vars

\* C9 witness: the record just aggregated is a sighting, under another
\* size filter, of a name first seen under an earlier one; its entry keeps
\* the earlier size filter.
C9_Witness ==
    /\ pc = "process"
    /\ rank > 0
    /\ Qualifies(results[rank])
    /\ EntryOf(results[rank].displayName).size_filter # SIZE_FILTERS[size_i]
    /\ EntryOf(results[rank].displayName).appearances >= 3

\* C10: no name stands at two positions of the output, and the output is
\* exactly min(FINAL_OUTPUT_LIMIT, number of entries of the map) long.
C10_OutputExact ==
    pc = "done" =>
        /\ \A i, j \in 1..Len(output) : output[i] = output[j] => i = j
        /\ Len(output) = Min(FINAL_OUTPUT_LIMIT, Len(subreddit_data))

\* C10 witness: the map holds fewer entries than the limit, some of them
\* sighted under several size filters and both periods and among their
\* category's top, and the output lists every entry once.
C10_Witness ==
    /\ pc = "done"
    /\ Len(subreddit_data) > 4 * TOP_PER_SIZE_CATEGORY
    /\ Len(subreddit_data) < FINAL_OUTPUT_LIMIT
    /\ Len(output) = Len(subreddit_data)
    /\ \E n \in OutputNames :
        /\ EntryOf(n).appearances >= 4
        /\ EntryOf(n).daily_rank # None
        /\ EntryOf(n).weekly_rank # None
        /\ n \in CategoryTop(EntryOf(n).size_filter)

====
